---- MODULE Spec2Model ----
(***************************************************************************)
(* Model of the Frogger simulation core of src/src/main.rs: the Frog, the  *)
(* MovingObject lanes, the goal slots and GameState::update.               *)
(*                                                                         *)
(* Positions are f32 pixels in the source.  The model keeps them as exact  *)
(* integers: every lane speed is a multiple of 5 px/s and the frame time   *)
(* dt is counted in fifths of a second, so speed * dt is a whole number of *)
(* pixels.  The 0.8 * CELL_SIZE goal threshold is compared after scaling   *)
(* both sides by 10.                                                       *)
(***************************************************************************)
EXTENDS Integers, Sequences, FiniteSets, TLC

\* ---------------------------------------------------------------- constants
SCREEN_WIDTH == 640
SCREEN_HEIGHT == 480
CELL_SIZE == 32
GRID_COLS == SCREEN_WIDTH \div CELL_SIZE
GRID_ROWS == SCREEN_HEIGHT \div CELL_SIZE
FROG_START_ROW == GRID_ROWS - 1
FROG_START_COL == GRID_COLS \div 2
INITIAL_LIVES == 3
GOAL_COUNT == 5
RIVER_START == 1
RIVER_END == 5
ROAD_START == 7
ROAD_END == 12

\* ------------------------------------------------------------------- bounds
\* number of world-advancing update() calls explored in one behaviour
MaxTicks == 3
\* frame times offered to update(), in fifths of a second
DtSet == {1}
\* outcomes of the random draws of init_lanes explored:
\* <<cars per road lane, car jitter, logs per river lane, log jitter>>;
\* the counts come from gen_range(2..=3), the jitters from
\* gen_range(-20.0..20.0) and gen_range(-30.0..30.0)
Placements == {<<2, 0, 2, 0>>, <<3, -19, 3, 29>>}

\* ---------------------------------------------------------------- Direction
multiplier(direction) ==
    IF direction = "Left" THEN -1 ELSE 1

\* ------------------------------------------------------------- MovingObject
MovingObject_new(x, row, width, speed, direction) ==
    [x |-> x, y |-> row, width |-> width, speed |-> speed, direction |-> direction]

\* speed is px/s, dt is in fifths of a second
Displacement(speed, direction, dt) ==
    (speed * multiplier(direction) * dt) \div 5

\* mutant: an object moving Left never wraps
MovingObject_update_NoLeftWrap(o, dt) ==
    LET nx == o.x + Displacement(o.speed, o.direction, dt)
        obj_width == o.width * CELL_SIZE
    IN  IF o.direction = "Right"
        THEN IF nx > SCREEN_WIDTH THEN [o EXCEPT !.x = -obj_width]
                                  ELSE [o EXCEPT !.x = nx]
        ELSE [o EXCEPT !.x = nx]

MovingObject_update(o, dt) ==
    LET nx == o.x + Displacement(o.speed, o.direction, dt)
        obj_width == o.width * CELL_SIZE
    IN  IF o.direction = "Right"
        THEN IF nx > SCREEN_WIDTH THEN [o EXCEPT !.x = -obj_width]
                                  ELSE [o EXCEPT !.x = nx]
        ELSE IF nx + obj_width < 0 THEN [o EXCEPT !.x = SCREEN_WIDTH]
                                   ELSE [o EXCEPT !.x = nx]

Rectangle(x, y, width, height) ==
    [x |-> x, y |-> y, width |-> width, height |-> height]

MovingObject_get_rect(o) ==
    Rectangle(o.x, o.y * CELL_SIZE, o.width * CELL_SIZE, CELL_SIZE)

check_collision_recs(r1, r2) ==
    /\ r1.x < r2.x + r2.width
    /\ r1.x + r1.width > r2.x
    /\ r1.y < r2.y + r2.height
    /\ r1.y + r1.height > r2.y

\* --------------------------------------------------------------------- Frog
Frog_new ==
    [x |-> FROG_START_COL, y |-> FROG_START_ROW, riding_offset |-> 0, is_riding |-> FALSE]

Frog_reset(f) ==
    [x |-> FROG_START_COL, y |-> FROG_START_ROW, riding_offset |-> 0, is_riding |-> FALSE]

get_pixel_x(f) == f.x * CELL_SIZE + f.riding_offset

get_pixel_y(f) == f.y * CELL_SIZE

Frog_get_rect(f) ==
    Rectangle(get_pixel_x(f), get_pixel_y(f), CELL_SIZE, CELL_SIZE)

move_up(f) ==
    IF f.y > 0 THEN [f EXCEPT !.y = f.y - 1, !.riding_offset = 0] ELSE f

\* mutant: the riding offset survives the row change
move_down_KeepOffset(f) ==
    IF f.y < GRID_ROWS - 1 THEN [f EXCEPT !.y = f.y + 1] ELSE f

move_down(f) ==
    IF f.y < GRID_ROWS - 1 THEN [f EXCEPT !.y = f.y + 1, !.riding_offset = 0] ELSE f

\* mutant: the column changes whether or not the frog is riding
move_left_IgnoreRiding(f) ==
    LET new_x == get_pixel_x(f) - CELL_SIZE
    IN  IF new_x >= 0 THEN [f EXCEPT !.x = f.x - 1] ELSE f

move_left(f) ==
    LET new_x == get_pixel_x(f) - CELL_SIZE
    IN  IF new_x >= 0
        THEN IF f.is_riding
             THEN [f EXCEPT !.riding_offset = f.riding_offset - CELL_SIZE]
             ELSE [f EXCEPT !.x = f.x - 1]
        ELSE f

\* mutant: the right bound is tested with <= instead of <
move_right_OffByOne(f) ==
    LET new_x == get_pixel_x(f) + CELL_SIZE
    IN  IF new_x <= SCREEN_WIDTH - CELL_SIZE
        THEN IF f.is_riding
             THEN [f EXCEPT !.riding_offset = f.riding_offset + CELL_SIZE]
             ELSE [f EXCEPT !.x = f.x + 1]
        ELSE f

move_right(f) ==
    LET new_x == get_pixel_x(f) + CELL_SIZE
    IN  IF new_x < SCREEN_WIDTH - CELL_SIZE
        THEN IF f.is_riding
             THEN [f EXCEPT !.riding_offset = f.riding_offset + CELL_SIZE]
             ELSE [f EXCEPT !.x = f.x + 1]
        ELSE f

\* ---------------------------------------------------------------- GameState
init_goals ==
    LET spacing == GRID_COLS \div (GOAL_COUNT + 1)
    IN  [i \in 1..GOAL_COUNT |-> [x |-> spacing * i, occupied |-> FALSE]]

\* lane tables of init_lanes: <<row, width, speed, direction>>
car_configs ==
    << <<7, 2, 80, "Left">>,  <<8, 3, 100, "Right">>, <<9, 2, 70, "Left">>,
       <<10, 4, 120, "Right">>, <<11, 2, 90, "Left">>, <<12, 3, 60, "Right">> >>

log_configs ==
    << <<1, 4, 50, "Right">>, <<2, 3, 70, "Left">>, <<3, 5, 40, "Right">>,
       <<4, 3, 60, "Left">>,  <<5, 4, 55, "Right">> >>

\* one lane: count objects spaced SCREEN_WIDTH / count apart, shifted by jitter
LaneObjects(cfg, count, jitter) ==
    [i \in 1..count |->
        MovingObject_new(((i - 1) * SCREEN_WIDTH) \div count + jitter,
                         cfg[1], cfg[2], cfg[3], cfg[4])]

RECURSIVE Lanes(_, _, _, _)
Lanes(configs, n, count, jitter) ==
    IF n = 0 THEN << >>
    ELSE Lanes(configs, n - 1, count, jitter) \o LaneObjects(configs[n], count, jitter)

init_cars(count, jitter) == Lanes(car_configs, Len(car_configs), count, jitter)

init_logs(count, jitter) == Lanes(log_configs, Len(log_configs), count, jitter)

\* the first element in list order
First(S) == CHOOSE k \in S : \A m \in S : k <= m

AllOccupied(gs) == \A i \in 1..Len(gs) : gs[i].occupied

\* mutant: the game ends only once lives has gone below zero
kill_frog_Late(s) ==
    LET l == s.lives - 1
    IN  IF l < 0
        THEN [s EXCEPT !.lives = l, !.deaths = s.deaths + 1, !.game_over = TRUE]
        ELSE [s EXCEPT !.lives = l, !.deaths = s.deaths + 1, !.frog = Frog_reset(s.frog)]

\* mutant: the game ends with one life left
kill_frog_Early(s) ==
    LET l == s.lives - 1
    IN  IF l <= 1
        THEN [s EXCEPT !.lives = l, !.deaths = s.deaths + 1, !.game_over = TRUE]
        ELSE [s EXCEPT !.lives = l, !.deaths = s.deaths + 1, !.frog = Frog_reset(s.frog)]

\* mutant: the frog is reset on the last life too
kill_frog_AlwaysReset(s) ==
    LET l == s.lives - 1
    IN  IF l <= 0
        THEN [s EXCEPT !.lives = l, !.deaths = s.deaths + 1, !.game_over = TRUE,
                       !.frog = Frog_reset(s.frog)]
        ELSE [s EXCEPT !.lives = l, !.deaths = s.deaths + 1, !.frog = Frog_reset(s.frog)]

\* s is the GameState record [frog, cars, logs, goals, lives, score, game_over, won]
\* plus the observers deaths (calls of kill_frog since new/reset) and outcome
kill_frog(s) ==
    LET l == s.lives - 1
    IN  IF l <= 0
        THEN [s EXCEPT !.lives = l, !.deaths = s.deaths + 1, !.game_over = TRUE]
        ELSE [s EXCEPT !.lives = l, !.deaths = s.deaths + 1, !.frog = Frog_reset(s.frog)]

\* |frog_center - goal_center| < CELL_SIZE * 0.8, both sides times 10
GoalHit(f, goal) ==
    LET frog_center == get_pixel_x(f) + CELL_SIZE \div 2
        goal_center == goal.x * CELL_SIZE + CELL_SIZE \div 2
        d == frog_center - goal_center
        distance == IF d < 0 THEN -d ELSE d
    IN  distance * 10 < CELL_SIZE * 8

\* mutant: the win flag is raised without ending the game
claim_slot_WonOnly(s, i) ==
    LET gs == [s.goals EXCEPT ![i].occupied = TRUE]
    IN  [s EXCEPT !.goals = gs,
                  !.score = s.score + 100,
                  !.frog = Frog_reset(s.frog),
                  !.won = IF AllOccupied(gs) THEN TRUE ELSE s.won,
                  !.outcome = "goal"]

\* mutant: the win test reads the slots as they were before the claim
claim_slot_StaleWin(s, i) ==
    LET gs == [s.goals EXCEPT ![i].occupied = TRUE]
        w == AllOccupied(s.goals)
    IN  [s EXCEPT !.goals = gs,
                  !.score = s.score + 100,
                  !.frog = Frog_reset(s.frog),
                  !.won = IF w THEN TRUE ELSE s.won,
                  !.game_over = IF w THEN TRUE ELSE s.game_over,
                  !.outcome = "goal"]

\* mutant: claiming a slot frees the slot before it
claim_slot_FreesPrevious(s, i) ==
    LET gs == [k \in 1..Len(s.goals) |->
                  [s.goals[k] EXCEPT !.occupied = IF k = i THEN TRUE
                                                  ELSE IF k = i - 1 THEN FALSE
                                                  ELSE s.goals[k].occupied]]
        w == AllOccupied(gs)
    IN  [s EXCEPT !.goals = gs,
                  !.score = s.score + 100,
                  !.frog = Frog_reset(s.frog),
                  !.won = IF w THEN TRUE ELSE s.won,
                  !.game_over = IF w THEN TRUE ELSE s.game_over,
                  !.outcome = "goal"]

\* mutant: the return after a claim is missing, so the claim falls through
\* to kill_frog
claim_slot_FallThrough(s, i) ==
    LET gs == [s.goals EXCEPT ![i].occupied = TRUE]
        w == AllOccupied(gs)
    IN  kill_frog([s EXCEPT !.goals = gs,
                            !.score = s.score + 100,
                            !.frog = Frog_reset(s.frog),
                            !.won = IF w THEN TRUE ELSE s.won,
                            !.game_over = IF w THEN TRUE ELSE s.game_over,
                            !.outcome = "goal"])

\* mutant: the slot is claimed without adding to the score
claim_slot_NoScore(s, i) ==
    LET gs == [s.goals EXCEPT ![i].occupied = TRUE]
        w == AllOccupied(gs)
    IN  [s EXCEPT !.goals = gs,
                  !.frog = Frog_reset(s.frog),
                  !.won = IF w THEN TRUE ELSE s.won,
                  !.game_over = IF w THEN TRUE ELSE s.game_over,
                  !.outcome = "goal"]

\* the body of the if that finds goal i within reach
claim_slot(s, i) ==
    LET gs == [s.goals EXCEPT ![i].occupied = TRUE]
        w == AllOccupied(gs)
    IN  [s EXCEPT !.goals = gs,
                  !.score = s.score + 100,
                  !.frog = Frog_reset(s.frog),
                  !.won = IF w THEN TRUE ELSE s.won,
                  !.game_over = IF w THEN TRUE ELSE s.game_over,
                  !.outcome = "goal"]

check_goal_reached(s) ==
    IF s.frog.y = 0
    THEN LET hits == {i \in 1..Len(s.goals) : ~s.goals[i].occupied /\ GoalHit(s.frog, s.goals[i])}
         IN  IF hits # {}
             THEN claim_slot(s, First(hits))
             ELSE [kill_frog(s) EXCEPT !.outcome = "miss"]
    ELSE s

\* indices of the objects of objs on row whose rectangle overlaps rect
Overlapping(objs, row, rect) ==
    {i \in 1..Len(objs) : objs[i].y = row /\ check_collision_recs(rect, MovingObject_get_rect(objs[i]))}

\* the two loops that move the cars and the logs
advance(objs, dt) ==
    [i \in 1..Len(objs) |-> MovingObject_update(objs[i], dt)]

\* mutant: only the first car of the lane is tested
HitCar_FirstOnly(cs, f) ==
    /\ f.y >= ROAD_START
    /\ f.y <= ROAD_END
    /\ \E i \in 1..Len(cs) :
           /\ cs[i].y = f.y
           /\ \A k \in 1..(i - 1) : cs[k].y # f.y
           /\ check_collision_recs(Frog_get_rect(f), MovingObject_get_rect(cs[i]))

\* the road check: some car on the frog's row overlaps frog_rect
HitCar(cs, f) ==
    /\ f.y >= ROAD_START
    /\ f.y <= ROAD_END
    /\ Overlapping(cs, f.y, Frog_get_rect(f)) # {}

\* mutant: a frog with no log under it stays in the water unharmed
river_logic_NoDrown(s1, dt) ==
    LET on == Overlapping(s1.logs, s1.frog.y, Frog_get_rect(s1.frog))
    IN  IF on = {}
        THEN s1
        ELSE LET log == s1.logs[First(on)]
                 s2 == [s1 EXCEPT !.frog.is_riding = TRUE,
                                  !.frog.riding_offset =
                                      s1.frog.riding_offset
                                      + Displacement(log.speed, log.direction, dt),
                                  !.outcome = "ride"]
                 frog_x == get_pixel_x(s2.frog)
             IN  IF frog_x < 0 \/ frog_x > SCREEN_WIDTH - CELL_SIZE
                 THEN [kill_frog(s2) EXCEPT !.outcome = "drift"]
                 ELSE s2

\* mutant: the frog is carried against the log's direction
river_logic_WrongSign(s1, dt) ==
    LET on == Overlapping(s1.logs, s1.frog.y, Frog_get_rect(s1.frog))
    IN  IF on = {}
        THEN [kill_frog(s1) EXCEPT !.outcome = "drown"]
        ELSE LET log == s1.logs[First(on)]
                 s2 == [s1 EXCEPT !.frog.is_riding = TRUE,
                                  !.frog.riding_offset =
                                      s1.frog.riding_offset
                                      - Displacement(log.speed, log.direction, dt),
                                  !.outcome = "ride"]
                 frog_x == get_pixel_x(s2.frog)
             IN  IF frog_x < 0 \/ frog_x > SCREEN_WIDTH - CELL_SIZE
                 THEN [kill_frog(s2) EXCEPT !.outcome = "drift"]
                 ELSE check_goal_reached(s2)

\* mutant: only the right edge of the screen is tested for drift
river_logic_NoLeftDrift(s1, dt) ==
    LET on == Overlapping(s1.logs, s1.frog.y, Frog_get_rect(s1.frog))
    IN  IF on = {}
        THEN [kill_frog(s1) EXCEPT !.outcome = "drown"]
        ELSE LET log == s1.logs[First(on)]
                 s2 == [s1 EXCEPT !.frog.is_riding = TRUE,
                                  !.frog.riding_offset =
                                      s1.frog.riding_offset
                                      + Displacement(log.speed, log.direction, dt),
                                  !.outcome = "ride"]
                 frog_x == get_pixel_x(s2.frog)
             IN  IF frog_x > SCREEN_WIDTH - CELL_SIZE
                 THEN [kill_frog(s2) EXCEPT !.outcome = "drift"]
                 ELSE check_goal_reached(s2)

\* the river branch; s1 holds the advanced objects and the frog as it was
\* when update was called
river_logic(s1, dt) ==
    LET on == Overlapping(s1.logs, s1.frog.y, Frog_get_rect(s1.frog))
    IN  IF on = {}
        THEN [kill_frog(s1) EXCEPT !.outcome = "drown"]
        ELSE LET log == s1.logs[First(on)]
                 s2 == [s1 EXCEPT !.frog.is_riding = TRUE,
                                  !.frog.riding_offset =
                                      s1.frog.riding_offset
                                      + Displacement(log.speed, log.direction, dt),
                                  !.outcome = "ride"]
                 frog_x == get_pixel_x(s2.frog)
             IN  IF frog_x < 0 \/ frog_x > SCREEN_WIDTH - CELL_SIZE
                 THEN [kill_frog(s2) EXCEPT !.outcome = "drift"]
                 ELSE check_goal_reached(s2)

\* mutant: the collisions are tested against the positions the objects had
\* before they were moved
update_playing_StaleCollision(s, dt) ==
    LET s1 == [s EXCEPT !.cars = advance(s.cars, dt), !.logs = advance(s.logs, dt),
                        !.outcome = "none"]
        frog_row == s.frog.y
    IN  IF HitCar(s.cars, s.frog)
        THEN [kill_frog(s1) EXCEPT !.outcome = "car"]
        ELSE IF frog_row >= RIVER_START /\ frog_row <= RIVER_END
        THEN [river_logic([s1 EXCEPT !.logs = s.logs], dt) EXCEPT !.logs = s1.logs]
        ELSE check_goal_reached([s1 EXCEPT !.frog.is_riding = FALSE,
                                           !.frog.riding_offset = 0])

\* update past its early return
update_playing(s, dt) ==
    LET s1 == [s EXCEPT !.cars = advance(s.cars, dt), !.logs = advance(s.logs, dt),
                        !.outcome = "none"]
        frog_row == s.frog.y
    IN  IF HitCar(s1.cars, s.frog)
        THEN [kill_frog(s1) EXCEPT !.outcome = "car"]
        ELSE IF frog_row >= RIVER_START /\ frog_row <= RIVER_END
        THEN river_logic(s1, dt)
        ELSE check_goal_reached([s1 EXCEPT !.frog.is_riding = FALSE,
                                           !.frog.riding_offset = 0])

\* mutant: no early return when the game is over
update_NoReturn(s, dt) == update_playing(s, dt)

update(s, dt) ==
    IF s.game_over THEN [s EXCEPT !.outcome = "idle"] ELSE update_playing(s, dt)

GameState_new(p) ==
    [frog |-> Frog_new, cars |-> init_cars(p[1], p[2]), logs |-> init_logs(p[3], p[4]),
     goals |-> init_goals, lives |-> INITIAL_LIVES, score |-> 0,
     game_over |-> FALSE, won |-> FALSE, deaths |-> 0, outcome |-> "none"]

\* mutant: the score survives a reset
GameState_reset_KeepScore(s, p) ==
    [s EXCEPT !.frog = Frog_reset(s.frog), !.lives = INITIAL_LIVES,
              !.game_over = FALSE, !.won = FALSE,
              !.cars = init_cars(p[1], p[2]), !.logs = init_logs(p[3], p[4]),
              !.goals = init_goals, !.deaths = 0, !.outcome = "none"]

GameState_reset(s, p) ==
    [s EXCEPT !.frog = Frog_reset(s.frog), !.lives = INITIAL_LIVES, !.score = 0,
              !.game_over = FALSE, !.won = FALSE,
              !.cars = init_cars(p[1], p[2]), !.logs = init_logs(p[3], p[4]),
              !.goals = init_goals, !.deaths = 0, !.outcome = "none"]

\* -------------------------------------------------------------------- state
VARIABLES frog, cars, logs, goals, lives, score, game_over, won,
          deaths, outcome, ticks

vars == <<frog, cars, logs, goals, lives, score, game_over, won, deaths, outcome, ticks>>

game == [frog |-> frog, cars |-> cars, logs |-> logs, goals |-> goals,
         lives |-> lives, score |-> score, game_over |-> game_over, won |-> won,
         deaths |-> deaths, outcome |-> outcome]

Holds(s) ==
    /\ frog = s.frog
    /\ cars = s.cars
    /\ logs = s.logs
    /\ goals = s.goals
    /\ lives = s.lives
    /\ score = s.score
    /\ game_over = s.game_over
    /\ won = s.won
    /\ deaths = s.deaths
    /\ outcome = s.outcome

Becomes(s) ==
    /\ frog' = s.frog
    /\ cars' = s.cars
    /\ logs' = s.logs
    /\ goals' = s.goals
    /\ lives' = s.lives
    /\ score' = s.score
    /\ game_over' = s.game_over
    /\ won' = s.won
    /\ deaths' = s.deaths
    /\ outcome' = s.outcome

Init ==
    \E p \in Placements :
        /\ Holds(GameState_new(p))
        /\ ticks = 0

\* main loop: the arrow keys are read only while the game is not over
Move(f) ==
    /\ ~game_over
    /\ frog' = f
    /\ outcome' = "none"
    /\ UNCHANGED <<cars, logs, goals, lives, score, game_over, won, deaths, ticks>>

MoveUp == Move(move_up(frog))

MoveDown == Move(move_down(frog))

MoveLeft == Move(move_left(frog))

MoveRight == Move(move_right(frog))

\* ticks counts the calls that get past the early return of update
Update(dt) ==
    /\ game_over \/ ticks < MaxTicks
    /\ Becomes(update(game, dt))
    /\ ticks' = IF game_over THEN ticks ELSE ticks + 1

\* main loop: SPACE restarts only while the game is over
Reset ==
    /\ game_over
    /\ \E p \in Placements : Becomes(GameState_reset(game, p))
    /\ UNCHANGED ticks

Next ==
    \/ MoveUp
    \/ MoveDown
    \/ MoveLeft
    \/ MoveRight
    \/ \E dt \in DtSet : Update(dt)
    \/ Reset

Spec == Init /\ [][Next]_vars

\* ------------------------------------------------------------- late in a game
\* A frame of the main loop that walks the frog from where it stands to
\* column col of the goal row with the arrow keys and then calls update.
RECURSIVE Ups(_, _)
Ups(f, n) == IF n = 0 THEN f ELSE Ups(move_up(f), n - 1)

RECURSIVE Lefts(_, _)
Lefts(f, n) == IF n = 0 THEN f ELSE Lefts(move_left(f), n - 1)

RECURSIVE Rights(_, _)
Rights(f, n) == IF n = 0 THEN f ELSE Rights(move_right(f), n - 1)

WalkTo(f, col) ==
    LET g == Ups(f, f.y)
    IN  IF col <= g.x THEN Lefts(g, g.x - col) ELSE Rights(g, col - g.x)

Hop(s, col, dt) == update([s EXCEPT !.frog = WalkTo(s.frog, col)], dt)

\* the game after the frog has been walked into the first three goal slots
ThreeClaimed(p) ==
    LET g == init_goals
    IN  Hop(Hop(Hop(GameState_new(p), g[1].x, 1), g[2].x, 1), g[3].x, 1)

InitLate ==
    \E p \in Placements :
        /\ Holds(ThreeClaimed(p))
        /\ ticks = 0

SpecLate == InitLate /\ [][Next]_vars

\* ------------------------------------------------------------ lanes on their own
\* Frames in which no key is pressed: the frog stays on the start row and
\* update only moves the cars and the logs.  Longer frame times and more
\* placements are explored than in Spec.
\* number of update() calls explored
MaxAdvance == 5
\* frame times in fifths of a second
DtWide == {1, 4, 9}
PlacementsWide ==
    {<<cc, cj, lc, lj>> : cc \in {2, 3}, cj \in {-19, 0, 19}, lc \in {2, 3}, lj \in {-29, 0, 29}}

InitObjects ==
    \E p \in PlacementsWide :
        /\ Holds(GameState_new(p))
        /\ ticks = 0

IdleFrame(dt) ==
    /\ ticks < MaxAdvance
    /\ Becomes(update(game, dt))
    /\ ticks' = ticks + 1

NextObjects == \E dt \in DtWide : IdleFrame(dt)

SpecObjects == InitObjects /\ [][NextObjects]_vars

\* ------------------------------------------------------------------- claims
Slots == 1..GOAL_COUNT

InRiver(row) == row >= RIVER_START /\ row <= RIVER_END

InRoad(row) == row >= ROAD_START /\ row <= ROAD_END

\* a step in which update ran past its early return
WorldTick == ticks' = ticks + 1

\* a step that is GameState::reset
FullReset == game_over /\ ~game_over'

\* a step in which Frog::reset ran inside update
ActorReset == WorldTick /\ (score' > score \/ (lives' < lives /\ lives' > 0))

\* the x extents [ax, ax + aw) and [bx, bx + bw) share a point
Overlap1D(ax, aw, bx, bw) == ax < bx + bw /\ bx < ax + aw

\* C1: in every reachable state isWon implies isOver, and isOver holds only
\* if lives is 0 or all 5 goal slots are occupied.
C1_OverOnlyByLossOrWin ==
    /\ won => game_over
    /\ game_over => (lives = 0 \/ \A i \in Slots : goals[i].occupied)

C1_Witness ==
    /\ won
    /\ game_over
    /\ lives > 0
    /\ \A i \in Slots : goals[i].occupied

\* C2: lives stays within 0..3, and lives is 0 exactly when the game is over
\* without a win.
C2_LivesRange ==
    /\ lives \in 0..INITIAL_LIVES
    /\ (lives = 0) <=> (game_over /\ ~won)

C2_Witness ==
    /\ lives = 0
    /\ game_over
    /\ ~won
    /\ outcome = "idle"

\* C3: in every step that is not a full reset, a goal slot that is occupied
\* stays occupied.
C3_ClaimMonotonic ==
    [][FullReset \/ \A i \in Slots : goals[i].occupied => goals'[i].occupied]_vars

C3_Witness ==
    /\ goals[4].occupied
    /\ ~goals[5].occupied
    /\ outcome = "miss"

\* C4: the riding offset is 0 right after any step that changes the frog's
\* row (move_up, move_down), after Frog::reset and after GameState::reset.
C4_OffsetClearedOnRowChange ==
    [][(frog'.y # frog.y \/ ActorReset \/ FullReset) => frog'.riding_offset = 0]_vars

C4_Witness ==
    /\ frog.is_riding
    /\ frog.y = RIVER_END + 1
    /\ frog.riding_offset = 0
    /\ outcome = "none"

\* C5: the riding offset is never non-zero while the frog is on a row outside
\* the river rows 1..5.
C5_OffsetOnlyInRiver ==
    ~InRiver(frog.y) => frog.riding_offset = 0

\* C6: while the game is over a step leaves the frog, every car and log, the
\* goal slots, lives, score and both flags unchanged, unless it is a full
\* reset, which leaves the game not over.
C6_IdleWhenOver ==
    [][game_over =>
         \/ UNCHANGED <<frog, cars, logs, goals, lives, score, game_over, won>>
         \/ Reset /\ ~game_over' /\ ~won']_vars

C6_Witness ==
    /\ game_over
    /\ won
    /\ outcome = "idle"

\* C7 as stated: a frog on a road row whose box overlaps a car of that row
\* when update is called loses exactly one life in that update.
C7_AsStated ==
    [][(WorldTick /\ InRoad(frog.y)
        /\ \E i \in 1..Len(cars) :
              /\ cars[i].y = frog.y
              /\ Overlap1D(get_pixel_x(frog), CELL_SIZE, cars[i].x, cars[i].width * CELL_SIZE))
       => lives' = lives - 1]_vars

\* C7 amended: a frog on a road row whose box overlaps a car of that row at
\* the position the car has after this update's advance loses exactly one
\* life in that update and, if lives remain, is back at the start cell.
C7_RoadCollision ==
    [][(WorldTick /\ InRoad(frog.y)
        /\ \E i \in 1..Len(cars') :
              /\ cars'[i].y = frog.y
              /\ Overlap1D(get_pixel_x(frog), CELL_SIZE, cars'[i].x, cars'[i].width * CELL_SIZE))
       => /\ lives' = lives - 1
          /\ lives' > 0 => frog' = Frog_new]_vars

C7_Witness ==
    /\ outcome = "car"
    /\ lives = INITIAL_LIVES - 1
    /\ frog = Frog_new

\* C8 as stated: a frog on a river row with no log of that row overlapping
\* its box when update is called loses exactly one life in that update.
C8_AsStated ==
    [][(WorldTick /\ InRiver(frog.y)
        /\ \A i \in 1..Len(logs) :
              logs[i].y = frog.y =>
                  ~Overlap1D(get_pixel_x(frog), CELL_SIZE, logs[i].x, logs[i].width * CELL_SIZE))
       => lives' = lives - 1]_vars

\* C8 amended: a frog on a river row with no log of that row overlapping its
\* box at the positions the logs have after this update's advance loses
\* exactly one life in that update, by the same path as a road collision
\* (back at the start cell if lives remain, game over otherwise).
C8_Drowning ==
    [][(WorldTick /\ InRiver(frog.y)
        /\ \A i \in 1..Len(logs') :
              logs'[i].y = frog.y =>
                  ~Overlap1D(get_pixel_x(frog), CELL_SIZE, logs'[i].x, logs'[i].width * CELL_SIZE))
       => /\ lives' = lives - 1
          /\ IF lives' > 0 THEN frog' = Frog_new /\ ~game_over' ELSE game_over' /\ ~won']_vars

C8_Witness ==
    /\ outcome = "drown"
    /\ lives = INITIAL_LIVES - 1
    /\ frog = Frog_new

\* C9: an update that claims a goal slot raises score by exactly 100; if that
\* leaves all 5 slots occupied it sets isWon and isOver in the same update,
\* and if another slot is still unoccupied it leaves both false.
C9_WinOnLastSlot ==
    [][(WorldTick /\ \E i \in Slots : ~goals[i].occupied /\ goals'[i].occupied)
       => /\ score' = score + 100
          /\ IF \A i \in Slots : goals'[i].occupied
             THEN won' /\ game_over'
             ELSE ~won' /\ ~game_over']_vars

C9_Witness ==
    /\ won
    /\ game_over
    /\ score = 100 * GOAL_COUNT
    /\ outcome = "goal"

\* C10: while no goal slot has been claimed since the game began, the game is
\* not over after one or two life-losses, and after three it is over, not
\* won, with lives 0.
C10_ThreeLosses ==
    (\A i \in Slots : ~goals[i].occupied) =>
        /\ deaths \in 0..INITIAL_LIVES
        /\ lives = INITIAL_LIVES - deaths
        /\ deaths < INITIAL_LIVES => ~game_over
        /\ deaths = INITIAL_LIVES => game_over /\ ~won /\ lives = 0

C10_Witness ==
    /\ deaths = INITIAL_LIVES
    /\ game_over
    /\ \A i \in Slots : ~goals[i].occupied

\* the observable shape of a fresh game: everything but the lane objects
FreshShape(s) ==
    /\ s.lives = 3
    /\ s.score = 0
    /\ ~s.game_over
    /\ ~s.won
    /\ s.frog.x = 10
    /\ s.frog.y = 14
    /\ s.frog.riding_offset = 0
    /\ ~s.frog.is_riding
    /\ Len(s.goals) = 5
    /\ \A i \in 1..Len(s.goals) : ~s.goals[i].occupied

\* C11: from every reachable state, GameState::reset, and a second reset right
\* after it, give lives 3, score 0, not over, not won, the frog at column 10
\* of row 14 with riding cleared, and 5 unoccupied goal slots, whatever lane
\* placement each reset draws.
C11_ResetShape ==
    \A p \in Placements, q \in Placements :
        /\ FreshShape(GameState_reset(game, p))
        /\ FreshShape(GameState_reset(GameState_reset(game, p), q))

\* a game that has been reset: the slots claimed before it are free again
C11_Witness ==
    /\ FreshShape(game)
    /\ ticks > 0
    /\ outcome = "none"

\* o2 is what one advance of frame time dt makes of object o
Advanced(o, o2, dt) ==
    LET w == o.width * 32
        nx == o.x + (IF o.direction = "Left" THEN -1 ELSE 1) * ((o.speed * dt) \div 5)
    IN  /\ o2.y = o.y
        /\ o2.width = o.width
        /\ o2.x >= -w
        /\ o2.x <= 640
        /\ (o.direction = "Right" /\ nx > 640) => o2.x = -w
        /\ (o.direction = "Left" /\ nx + w < 0) => o2.x = 640

\* C12: every advance keeps each object's row and leaves its x within
\* [-objectWidthPixels, screenWidth]; an object moving Right that would pass
\* screenWidth is set to -objectWidthPixels and one moving Left whose right
\* edge would pass below 0 is set to screenWidth.
C12_WrapInBounds ==
    [][\E dt \in DtWide :
          /\ Len(cars') = Len(cars)
          /\ Len(logs') = Len(logs)
          /\ \A i \in 1..Len(cars) : Advanced(cars[i], cars'[i], dt)
          /\ \A i \in 1..Len(logs) : Advanced(logs[i], logs'[i], dt)]_vars

\* one object has just wrapped to the left edge and another to the right edge
C12_Witness ==
    /\ \E i \in 1..Len(cars) : cars[i].direction = "Right" /\ cars[i].x = -(cars[i].width * 32)
    /\ \E i \in 1..Len(logs) : logs[i].direction = "Left" /\ logs[i].x = 640

\* the frog's effective pixel X, col * cellSize + ridingOffset
PixelX(f) == f.x * 32 + f.riding_offset

\* C13: move_left with candidate pixel X below 0, move_right with candidate
\* pixel X at or above screenWidth - cellSize, move_up on row 0 and move_down
\* on the last row leave the frog unchanged; and after every step that leaves
\* the game not over the frog's row is in 0..14 and its effective pixel X is
\* within [0, screenWidth - cellSize].
C13_MovesStayInBounds ==
    [][/\ (MoveLeft /\ PixelX(frog) - 32 < 0) => frog' = frog
       /\ (MoveRight /\ PixelX(frog) + 32 >= 640 - 32) => frog' = frog
       /\ (MoveUp /\ frog.y = 0) => frog' = frog
       /\ (MoveDown /\ frog.y = 14) => frog' = frog
       /\ ~game_over' => /\ frog'.y \in 0..14
                         /\ PixelX(frog') >= 0
                         /\ PixelX(frog') <= 640 - 32]_vars

\* the frog in the top right corner it can reach, where move_up and
\* move_right are both refused
C13_Witness ==
    /\ frog.y = 0
    /\ PixelX(frog) = 640 - 64
    /\ ~game_over
    /\ outcome = "none"

\* the number of occupied slots among gs
RECURSIVE OccupiedUpTo(_, _)
OccupiedUpTo(gs, n) ==
    IF n = 0 THEN 0
    ELSE OccupiedUpTo(gs, n - 1) + (IF gs[n].occupied THEN 1 ELSE 0)

\* C14: in one update lives goes down by at most 1, at most one goal slot
\* becomes occupied, score goes up by at most 100, and a life-loss and a
\* goal claim never happen together.
C14_OneOutcomePerTick ==
    [][WorldTick =>
         /\ lives' \in {lives, lives - 1}
         /\ OccupiedUpTo(goals', 5) - OccupiedUpTo(goals, 5) \in {0, 1}
         /\ score' \in {score, score + 100}
         /\ ~(lives' < lives /\ (score' > score \/ goals' # goals))]_vars

\* an update that claimed a slot in a game that has also seen a life-loss
C14_Witness ==
    /\ outcome = "goal"
    /\ deaths > 0
    /\ score = 100

\* the pixels an object of this speed and direction moves in a frame of dt
Shift(o, dt) == (IF o.direction = "Left" THEN -1 ELSE 1) * ((o.speed * dt) \div 5)

\* object o after one advance of frame time dt, wraparound included
Moved(o, dt) ==
    LET w == o.width * 32
        nx == o.x + Shift(o, dt)
    IN  IF o.direction = "Right" /\ nx > 640 THEN [o EXCEPT !.x = -w]
        ELSE IF o.direction = "Left" /\ nx + w < 0 THEN [o EXCEPT !.x = 640]
        ELSE [o EXCEPT !.x = nx]

\* some object of objs on the frog's row overlaps the box of frog f
Touches(objs, f) ==
    \E i \in 1..Len(objs) :
        /\ objs[i].y = f.y
        /\ Overlap1D(PixelX(f), 32, objs[i].x, objs[i].width * 32)

\* C15: an update that runs moves every car and log, wraparound included, and
\* its road collision and its river overlap are decided by the positions the
\* objects have after that move and the frog as it was when update was
\* called: on a road row a life is lost exactly when a moved car overlaps
\* the frog, on a river row the frog drowns exactly when no moved log does.
C15_CollisionAfterAdvance ==
    [][WorldTick =>
         \E dt \in DtSet :
            /\ cars' = [i \in 1..Len(cars) |-> Moved(cars[i], dt)]
            /\ logs' = [i \in 1..Len(logs) |-> Moved(logs[i], dt)]
            /\ InRoad(frog.y) => ((lives' = lives - 1) <=> Touches(cars', frog))
            /\ InRiver(frog.y) => /\ (outcome' = "drown") <=> ~Touches(logs', frog)
                                  /\ (outcome' \in {"ride", "drift"}) <=> Touches(logs', frog)]_vars

\* the frog rides a log that was not under it when update was called and
\* moved under it during that update
C15_Witness ==
    /\ outcome = "ride"
    /\ InRiver(frog.y)
    /\ \E i \in 1..Len(logs) :
          /\ logs[i].y = frog.y
          /\ LET d == Shift(logs[i], 1)
                 before == PixelX(frog) - d
             IN  /\ Overlap1D(before, 32, logs[i].x, logs[i].width * 32)
                 /\ \A j \in 1..Len(logs) :
                       logs[j].y = frog.y =>
                           /\ logs[j].x # 640
                           /\ ~Overlap1D(before, 32, logs[j].x - d, logs[j].width * 32)

\* the unoccupied slots whose pixel centre is within 0.8 * cellSize of the
\* pixel centre of frog f (both sides of the comparison times 10)
SlotsInReach(gs, c) ==
    {i \in Slots :
        /\ ~gs[i].occupied
        /\ LET d == c - (gs[i].x * 32 + 16)
           IN  (IF d < 0 THEN -d ELSE d) * 10 < 256}

\* what C16 asks of an update that finds the frog on row 0, the frog's pixel
\* centre being c
GoalRowOutcome(c) ==
    LET reach == SlotsInReach(goals, c)
    IN  /\ reach # {} =>
              /\ goals' = [goals EXCEPT ![CHOOSE i \in reach : \A k \in reach : i <= k].occupied = TRUE]
              /\ score' = score + 100
              /\ frog' = Frog_new
              /\ lives' = lives
        /\ reach = {} =>
              /\ lives' = lives - 1
              /\ goals' = goals
              /\ score' = score

\* C16: an update that finds the frog on row 0 claims the lowest-index
\* unoccupied slot whose pixel centre is within 0.8 * cellSize of the frog's
\* pixel centre (slot occupied, score + 100, frog back at the start) or, if
\* there is none, takes a life; and after an update that leaves the game not
\* over the frog is not on row 0.
C16_GoalRow ==
    [][WorldTick =>
         /\ frog.y = 0 => GoalRowOutcome(PixelX(frog) + 16)
         /\ ~game_over' => frog'.y # 0]_vars

\* the same with the frog's centre taken at its grid column, the riding
\* offset left out
C16_GoalRowByColumn ==
    [][WorldTick =>
         /\ frog.y = 0 => GoalRowOutcome(frog.x * 32 + 16)
         /\ ~game_over' => frog'.y # 0]_vars

\* the first object, in list order, of objs on the frog's row that overlaps
\* the box of frog f
FirstTouching(objs, f) ==
    LET on == {i \in 1..Len(objs) :
                  /\ objs[i].y = f.y
                  /\ Overlap1D(PixelX(f), 32, objs[i].x, objs[i].width * 32)}
    IN  objs[CHOOSE i \in on : \A k \in on : i <= k]

\* the frog's effective pixel X once the first log under it has carried it
\* for a frame of dt
CarriedX(dt) == PixelX(frog) + Shift(FirstTouching(logs', frog), dt)

\* C17 as stated: an update that finds the frog on a river row overlapping a
\* log of that row leaves it riding, its offset changed by that log's signed
\* speed times dt, its column and row unchanged.
C17_AsStated ==
    [][(WorldTick /\ InRiver(frog.y) /\ Touches(logs', frog)) =>
         \E dt \in DtSet :
            /\ frog'.is_riding
            /\ frog'.riding_offset = frog.riding_offset + Shift(FirstTouching(logs', frog), dt)
            /\ frog'.x = frog.x
            /\ frog'.y = frog.y]_vars

\* C17 amended: the same, provided the carried frog is still within
\* [0, screenWidth - cellSize]; otherwise the update is a life-loss.
C17_Riding ==
    [][(WorldTick /\ InRiver(frog.y) /\ Touches(logs', frog)) =>
         \E dt \in DtSet :
            IF CarriedX(dt) >= 0 /\ CarriedX(dt) <= 640 - 32
            THEN /\ frog'.is_riding
                 /\ frog'.riding_offset = frog.riding_offset + Shift(FirstTouching(logs', frog), dt)
                 /\ frog'.x = frog.x
                 /\ frog'.y = frog.y
                 /\ lives' = lives
            ELSE lives' = lives - 1]_vars

\* the frog has been carried by logs in two updates running
C17_Witness ==
    /\ outcome = "ride"
    /\ frog.is_riding
    /\ InRiver(frog.y)
    /\ ticks >= 2
    /\ \E i \in 1..Len(logs) :
          logs[i].y = frog.y /\ frog.riding_offset = 2 * Shift(logs[i], 1)

\* C18: an update that finds the frog on a log of its river row takes a life
\* exactly when the frog's effective pixel X, once carried, is below 0 or
\* above screenWidth - cellSize; with the carried X inside that range lives
\* is unchanged.
C18_DriftOffScreen ==
    [][(WorldTick /\ InRiver(frog.y) /\ Touches(logs', frog)) =>
         \E dt \in DtSet :
            /\ (CarriedX(dt) < 0 \/ CarriedX(dt) > 640 - 32) => lives' = lives - 1
            /\ (CarriedX(dt) >= 0 /\ CarriedX(dt) <= 640 - 32) => lives' = lives]_vars

\* the frog has just been carried off the screen
C18_Witness ==
    /\ outcome = "drift"
    /\ lives = 2
    /\ frog = Frog_new

\* C19: an update that takes a life takes exactly one, leaves score and every
\* goal slot as they were and the cars and logs at their moved positions;
\* if lives remain the frog is back at the start cell and the game goes on,
\* and if none remain the game is over, not won, and the frog keeps its
\* column and row.
C19_LifeLossFrame ==
    [][(WorldTick /\ lives' < lives) =>
         /\ lives' = lives - 1
         /\ score' = score
         /\ goals' = goals
         /\ \E dt \in DtSet :
               /\ cars' = [i \in 1..Len(cars) |-> Moved(cars[i], dt)]
               /\ logs' = [i \in 1..Len(logs) |-> Moved(logs[i], dt)]
         /\ lives' > 0 => (frog' = Frog_new /\ ~game_over' /\ ~won')
         /\ lives' = 0 => (game_over' /\ ~won' /\ frog'.x = frog.x /\ frog'.y = frog.y)]_vars

\* the last life was lost away from the start cell and the frog is still there
C19_Witness ==
    /\ lives = 0
    /\ game_over
    /\ ~won
    /\ frog.y # 14
    /\ outcome \in {"car", "drown", "drift", "miss"}

\* a key press handled by the main loop: the only steps that are neither an
\* update of a running game nor a reset of a finished one
KeyMove == ~game_over /\ ticks' = ticks

OccupiedSlots == {i \in Slots : goals[i].occupied}

\* C21: in every reachable state score is 100 times the number of occupied
\* goal slots, hence within 0..500, and won holds exactly when all five
\* slots are occupied.
C21_ScoreCountsSlots ==
    /\ score = 100 * Cardinality(OccupiedSlots)
    /\ score \in 0..500
    /\ won <=> (OccupiedSlots = Slots)

\* the fifth slot was claimed by a game that had lost a life on the way
C21_Witness ==
    /\ OccupiedSlots = Slots
    /\ score = 500
    /\ won
    /\ deaths = 1
====
